---- MODULE Spec2Model ----
(***************************************************************************)
(* Model of the PhoneDTMF engine (src/src/PhoneDTMF.cpp): the constructor, *)
(* begin (calibration), detect (one Goertzel block), calculateMeasurement, *)
(* ProcessSample, ResetDTMF and tone2char.                                 *)
(*                                                                         *)
(* Numbers.  A C float is modelled as an integer count of 1/FRAC units     *)
(* (fixed point), or as the value NaN.  Arithmetic on floats goes through  *)
(* FAdd/FSub/FMul/FDivInt/FSqrt, which propagate NaN as IEEE-754 does.     *)
(* Rounding of the float operations is not modelled (sqrt rounds down to a *)
(* whole number).  uint32_t values are plain integers; the one value that  *)
(* does not fit the checker's integers, 2^32-1, is written UINT_SAT.       *)
(*                                                                         *)
(* Time.  The sampler needs periodNs nanoseconds for one analogRead plus   *)
(* ProcessSample; delayMicroseconds(d) adds d microseconds.  Two millis()  *)
(* readings taken D nanoseconds apart differ by floor(D/1e6) or by one     *)
(* more, depending on where the millisecond ticks fall.                    *)
(***************************************************************************)
EXTENDS Integers, Sequences, FiniteSets, TLC

(* ------------------------------------------------------------------ *)
(* Program constants (PhoneDTMF.h is not part of the sources at hand). *)
(* ------------------------------------------------------------------ *)
TONES == 8

MAX_FREQ == 6000

ToneIdx == 0 .. (TONES - 1)

\* the eight DTMF row and column frequencies, in Hz
DTMF_TONES == [i \in ToneIdx |-> <<697, 770, 852, 941, 1209, 1336, 1477, 1633>>[i + 1]]

\* the sixteen keys: bit i of a pattern is tone i (rows 0..3, columns 4..7)
DTMF_MAP == <<17, 33, 65, 18, 34, 66, 20, 36, 68, 40, 129, 130, 132, 136, 24, 72>>

DTMF_CHAR == <<"1", "2", "3", "4", "5", "6", "7", "8", "9", "0", "A", "B", "C", "D", "*", "#">>

\* (char) 0, the value tone2char returns when no entry matches
NUL == "NUL"

(* ------------------------------------------------------------------ *)
(* Bounds of the model and of its environment.                         *)
(* ------------------------------------------------------------------ *)
\* the idle-line reading of the analog pin
ADC_IDLE == 2

\* detection blocks of one begin call that are followed
MaxBlocks == 3

\* magnitudes drawn when calculateMeasurement is exercised on its own
MaxMag == 2

\* calls of begin that are followed when re-calibration is explored
MaxInits == 2

\* calls of detect by the user of the engine that are followed
MaxDetects == 1

\* begin arguments (maxFrequence)
\* the block size the constructor is documented to default to
DEFAULT_SAMPLES == 128

MaxFreqs == {MAX_FREQ, 4000}

\* hosts: the native sampling period in ns and the sampleCount the engine is
\* constructed with.  12 kHz is 2 x MAX_FREQ, 6.6 kHz is 1.1 x MAX_FREQ.
Hosts == { <<83333, DEFAULT_SAMPLES>>,     \* 12 kHz
           <<151515, DEFAULT_SAMPLES>>,    \* 6.6 kHz
           <<200000, DEFAULT_SAMPLES>>,    \* 5 kHz, slower than MAX_FREQ
           <<40000, DEFAULT_SAMPLES>>,     \* 25 kHz
           <<83333, 2>>,       \* a block shorter than a millisecond
           <<83333, 0>>,       \* an empty block
           <<500, DEFAULT_SAMPLES>> }      \* 2 MHz: 1000 reads within a millisecond

\* the hosts on which a second begin call is followed
ReinitHosts == { <<200000, DEFAULT_SAMPLES>> }

\* the host on which a begin call is followed without a limit on its blocks
LoopHosts == { <<83333, DEFAULT_SAMPLES>> }

\* what the line carries during a run of reads
Signals == {"idle", "tone"}

(* ------------------------------------------------------------------ *)
(* Floats.                                                             *)
(* ------------------------------------------------------------------ *)
FRAC == TONES

\* a value no computation of the model produces otherwise
NaN == 0 - 2000000000

\* stands for 2^32-1, the saturated result of a float -> uint32_t conversion
UINT_SAT == 2147483647

IsNaN(x) == x = NaN

F(n) == n * FRAC

FAdd(a, b) == IF IsNaN(a) \/ IsNaN(b) THEN NaN ELSE a + b

FSub(a, b) == IF IsNaN(a) \/ IsNaN(b) THEN NaN ELSE a - b

FMul(a, b) == IF IsNaN(a) \/ IsNaN(b) THEN NaN ELSE (a * b) \div FRAC

\* a float divided by the integer n > 0
FDivInt(a, n) == IF IsNaN(a) THEN NaN ELSE a \div n

\* comparisons with NaN are false
FGt(a, b) == IF IsNaN(a) \/ IsNaN(b) THEN FALSE ELSE a > b

FLt(a, b) == IF IsNaN(a) \/ IsNaN(b) THEN FALSE ELSE a < b

RECURSIVE ISqrtIn(_, _, _)
ISqrtIn(n, lo, hi) ==
  IF lo >= hi THEN lo
  ELSE LET mid == (lo + hi + 1) \div 2
       IN  IF mid * mid <= n THEN ISqrtIn(n, mid, hi) ELSE ISqrtIn(n, lo, mid - 1)

\* floor of the square root of the natural number n
ISqrt(n) == ISqrtIn(n, 0, IF n < 46340 THEN n ELSE 46340)

\* sqrt of a float whose square is given in 1/(FRAC*FRAC) units: NaN for a
\* negative or NaN argument, else the root rounded down to a whole number
FSqrt(sq) == IF IsNaN(sq) \/ sq < 0 THEN NaN ELSE F(ISqrt(sq) \div FRAC)

(* ------------------------------------------------------------------ *)
(* Pure functions of the engine.                                       *)
(* ------------------------------------------------------------------ *)
\* 2*cos(2*pi*r/1000) for 0 <= r <= 250, by Bhaskara's rational approximation
\* cos(x) ~ (pi^2 - 4x^2) / (pi^2 + x^2)
TwoCosQuarter(r) == (2 * FRAC * (1000000 - 16 * r * r)) \div (1000000 + 4 * r * r)

\* 2*cos(2*pi*r/1000) for r in 0..999 (thousandths of a turn)
TwoCosTurn(r) ==
  LET h == IF r > 500 THEN 1000 - r ELSE r
  IN  IF h <= 250 THEN TwoCosQuarter(h) ELSE 0 - TwoCosQuarter(500 - h)

\* lines 82 and 88: omega = (2*PI*tone)/freq; coeff = 2*cos(omega).
\* freq = 0 gives omega = +inf and cos(+inf) = NaN.
ToneCoeff(tone, freq) ==
  IF freq = 0 THEN NaN ELSE TwoCosTurn(((tone * 1000) \div freq) % 1000)

\* lines 80..89: the coefficient of every tone for the frequency freq
Coefficients(freq) == [i \in ToneIdx |-> ToneCoeff(DTMF_TONES[i], freq)]

\* ResetDTMF: the value every Q1[i], Q2[i] is set to
ZeroQ == [i \in ToneIdx |-> 0]

\* the array f itself; the comparison makes the checker compute its elements
\* once instead of keeping them as an unevaluated expression
Evaluated(f) == IF f = ZeroQ THEN ZeroQ ELSE f

\* ProcessSample: the new <<Q1, Q2>> after one sample
ProcessSample(q1, q2, coeff, centre, sample) ==
  LET Q0(i) == FAdd(FSub(FMul(coeff[i], q1[i]), q2[i]), F(sample - centre))
  IN  << Evaluated([i \in ToneIdx |-> Q0(i)]), q1 >>

\* analogRead: the k-th read of a run of reads while the line carries sig
AnalogRead(sig, k) ==
  IF sig = "idle" THEN ADC_IDLE
  ELSE ADC_IDLE + 1 - (k % 3)

\* singleDetect called for the reads from .. to-1 of a run: the final
\* <<Q1, Q2>>.  The run is split in halves, the first half computed before
\* the second starts, so that the evaluation nests only log(to - from) deep.
RECURSIVE SampleRun(_, _, _, _, _, _)
SampleRun(q, coeff, centre, sig, from, to) ==
  IF to <= from THEN q
  ELSE IF to = from + 1
    THEN ProcessSample(q[1], q[2], coeff, centre, AnalogRead(sig, from))
  ELSE LET mid == (from + to) \div 2
           half == SampleRun(q, coeff, centre, sig, from, mid)
       IN  IF half[1] = ZeroQ /\ half[2] = ZeroQ
           THEN SampleRun(<<ZeroQ, ZeroQ>>, coeff, centre, sig, mid, to)
           ELSE SampleRun(half, coeff, centre, sig, mid, to)

\* the loops of lines 52..55 and 102..106 without their timing: n reads
SampleLoop(q, coeff, centre, sig, n) == SampleRun(q, coeff, centre, sig, 0, n)

\* line 165: sqrt(Q1*Q1 + Q2*Q2 - coeff*Q1*Q2) for one tone
Magnitude(q1, q2, c) ==
  IF IsNaN(q1) \/ IsNaN(q2) \/ IsNaN(c) THEN NaN
  ELSE FSqrt(q1 * q1 + q2 * q2 - FMul(c, q1) * q2)

\* lines 163..168: dtmf_mag
Magnitudes(q1, q2, coeff) == [i \in ToneIdx |-> Magnitude(q1[i], q2[i], coeff[i])]

\* midMag after the loop of lines 163..168 (tones i .. TONES-1 still to add)
RECURSIVE SumMag(_, _)
SumMag(mag, i) == IF i >= TONES THEN 0 ELSE FAdd(mag[i], SumMag(mag, i + 1))

\* lines 176..179 with the automatic threshold being the mean, not twice it
ThresholdMean(mag, magnitude) ==
  IF FLt(magnitude, 0) THEN FDivInt(SumMag(mag, 0), TONES) ELSE magnitude

\* lines 176..179: the threshold the magnitudes are compared with
Threshold(mag, magnitude) ==
  IF FLt(magnitude, 0) THEN FMul(FDivInt(SumMag(mag, 0), TONES), F(2))
  ELSE magnitude

\* line 183 with >= in place of >
ToneOverOrEqual(m, thr) == IF IsNaN(m) \/ IsNaN(thr) THEN FALSE ELSE m >= thr

\* line 183: the test that sets bit i
ToneOver(m, thr) == FGt(m, thr)

\* lines 181..187: dtmf |= (0x01 << i) for every tone over the threshold
RECURSIVE DtmfBits(_, _, _)
DtmfBits(mag, thr, i) ==
  IF i >= TONES THEN 0
  ELSE (IF ToneOver(mag[i], thr) THEN 2 ^ i ELSE 0) + DtmfBits(mag, thr, i + 1)

\* calculateMeasurement on the magnitudes of a block: the returned bitmask
CalcDtmf(mag, magnitude) == DtmfBits(mag, Threshold(mag, magnitude), 0)

\* lines 73..76: the mean of the magnitudes
BaseMagnitude(mag) == FDivInt(SumMag(mag, 0), TONES)

\* line 117 with the loop bound TONES in place of TONES*2
MapLenHalf == TONES

\* line 117: the number of table entries tone2char looks at
MapLen == TONES * 2

\* tone2char: the first entry j, j+1, .. of DTMF_MAP equal to dtmf
RECURSIVE ToneLookup(_, _)
ToneLookup(dtmf, j) ==
  IF j >= MapLen THEN NUL
  ELSE IF dtmf = DTMF_MAP[j + 1] THEN DTMF_CHAR[j + 1]
  ELSE ToneLookup(dtmf, j + 1)

tone2char(dtmf) == ToneLookup(dtmf, 0)

(* ------------------------------------------------------------------ *)
(* Timing and conversions.                                             *)
(* ------------------------------------------------------------------ *)
\* millis() - t for two readings taken ns nanoseconds apart
ElapsedMs(ns) == {ns \div 1000000, ns \div 1000000 + 1}

\* the duration in ns of n reads, each followed by delayMicroseconds(comp)
BlockNs(period, comp, n) == n * (period + comp * 1000)

\* a non-finite float converted to uint32_t (undefined behaviour): the
\* results builds produce are 0 and the saturated value
NonFiniteToU32 == {0, UINT_SAT}

\* line 108: the values 1.0f / ((fTemp / 1000.0f) / count) can take as uint32_t
MeasuredFreq(ft, count) ==
  IF ft = 0 THEN NonFiniteToU32          \* x/0: +inf for count > 0, NaN for 0
  ELSE IF count <= 0 THEN {0}            \* 1/(+inf) = 0
  ELSE {(count * 1000) \div ft}

\* line 57 and 62: (uint32_t)((1000.0f / t1) * 1000.0f)
WarmupFreq(t1) == IF t1 = 0 THEN NonFiniteToU32 ELSE {1000000 \div t1}

\* line 59, the test sampleFrequence > maxFrequence (sampleFrequence = 1e6/t1)
WarmupFaster(t1, maxF) == t1 * maxF < 1000000

\* line 59, the delay ((1000/maxFrequence) - (1000/sampleFrequence)) * 1000
SeedCompensation(t1, maxF) == (1000000 - t1 * maxF) \div maxF

\* a < b for uint32_t operands, UINT_SAT standing for 2^32-1
U32Less(a, b) == a # UINT_SAT /\ (b = UINT_SAT \/ a < b)

\* line 70: _iRealFrequence < maxFrequence - 150 in uint32_t arithmetic: for
\* maxFrequence < 150 the difference wraps to 2^32 - (150 - maxFrequence)
BelowBand(freq, maxF) ==
  IF maxF >= 150 THEN U32Less(freq, maxF - 150) ELSE freq # UINT_SAT

\* line 69: _iRealFrequence > maxFrequence
AboveMax(freq, maxF) == U32Less(maxF, freq)

\* lines 69 and 70: the compensation after one RATE_ADJUST measurement
AdjustCompensation(comp, freq, maxF) ==
  LET c1 == IF AboveMax(freq, maxF) /\ comp < 200 THEN comp + 1 ELSE comp
  IN  IF BelowBand(freq, maxF) /\ c1 > 0 THEN c1 - 1 ELSE c1

\* begin returns the uint32_t _iRealFrequence as a uint16_t
U16(x) == IF x = UINT_SAT THEN 65535 ELSE x % 65536

(* ------------------------------------------------------------------ *)
(* State.                                                              *)
(* ------------------------------------------------------------------ *)
VARIABLES
  pc,                 \* position: "idle", "ra_top", "detect_sampling",
                      \*   "detect_calc", "ra_adjust", "finalize"
  caller,             \* who called detect: "begin", "user" or "none"
  periodNs,           \* the host's native sampling period (environment)
  line,               \* what the line carries during the call in progress
  iSamplesCount,      \* _iSamplesCount
  iCompensation,      \* _iCompensation
  fBaseMagnitude,     \* _fBaseMagnitude
  iSamplesFrequence,  \* _iSamplesFrequence
  iRealFrequence,     \* _iRealFrequence
  iAdcCentre,         \* _iAdcCentre
  afToneCoeff,        \* _afToneCoeff
  afQ1,               \* _afQ1
  afQ2,               \* _afQ2
  maxFrequence,       \* begin: parameter
  t1,                 \* begin: local, the elapsed ms of the 1000 reads
  oldFreq,            \* begin: local
  magnitudes,         \* begin: local array filled by detect
  magnitude,          \* detect: parameter (the threshold, < 0 for automatic)
  fTemp,              \* detect: local, the elapsed ms of the block
  ret,                \* the value the last finished call returned
  nBlocks,            \* detect calls made by the begin call in progress
  initsLeft,          \* begin calls still followed
  detectsLeft,        \* detect calls by the user still followed
  coeffFreq,          \* the frequency lines 80..89 last ran with, -1: never
  calcMag,            \* calculateMeasurement on its own: magnitudes,
  calcThr,            \*   threshold argument,
  calcRet,            \*   returned bitmask (-1: not yet called)
  mapIn,              \* tone2char on its own: argument,
  mapOut,             \*   returned character ("": not yet called)
  adjComp,            \* lines 69..70 on their own: _iCompensation before,
  adjFreq,            \*   _iRealFrequence,
  adjMax,             \*   maxFrequence,
  adjOut              \*   _iCompensation after (-1: not yet run)

engineVars == << pc, caller, periodNs, line, iSamplesCount, iCompensation, fBaseMagnitude,
                 iSamplesFrequence, iRealFrequence, iAdcCentre, afToneCoeff, afQ1,
                 afQ2, maxFrequence, t1, oldFreq, magnitudes, magnitude, fTemp,
                 ret, nBlocks, initsLeft, detectsLeft, coeffFreq >>

calcVars == << calcMag, calcThr, calcRet >>

mapVars == << mapIn, mapOut >>

adjVars == << adjComp, adjFreq, adjMax, adjOut >>

vars == << engineVars, calcVars, mapVars, adjVars >>

\* values an uninitialised member can hold: 0 (static storage) or something else
Indeterminate == {0, 1}

\* the threshold detect uses when the caller gives none: automatic
AUTO == F(0 - 1)

\* threshold arguments of detect: automatic, 0 and 1
Thresholds == {AUTO, F(0), F(1)}

\* the locals of a call that is not in progress
NoBegin == maxFrequence = 0 /\ t1 = 0 /\ oldFreq = 0 /\ magnitudes = ZeroQ /\ nBlocks = 0

NoDetect == magnitude = AUTO /\ fTemp = 0

\* PhoneDTMF::PhoneDTMF on one of the hosts: the members it sets, and the ones
\* it leaves alone
Constructed(hosts) ==
  /\ pc = "idle"
  /\ caller = "none"
  /\ \E h \in hosts : periodNs = h[1] /\ iSamplesCount = h[2]
  /\ line = "idle"
  /\ iCompensation = 0
  /\ fBaseMagnitude = 0
  /\ iSamplesFrequence = MAX_FREQ
  /\ iRealFrequence = 0
  /\ \E g \in Indeterminate :
       /\ iAdcCentre = g
       /\ afToneCoeff = [i \in ToneIdx |-> F(g)]
       /\ afQ1 = [i \in ToneIdx |-> F(g)]
       /\ afQ2 = [i \in ToneIdx |-> F(g)]
  /\ NoBegin
  /\ NoDetect
  /\ ret = 0
  /\ coeffFreq = 0 - 1

CalcUnused == calcMag = ZeroQ /\ calcThr = 0 /\ calcRet = 0 - 1

MapUnused == mapIn = 0 /\ mapOut = ""

AdjUnused == adjComp = 0 /\ adjFreq = 0 /\ adjMax = 0 /\ adjOut = 0 - 1

\* one calibration, with detect calls before and after it
Init ==
  /\ Constructed(Hosts)
  /\ initsLeft = 1
  /\ detectsLeft = MaxDetects
  /\ CalcUnused
  /\ MapUnused
  /\ AdjUnused

\* calibration and re-calibration
InitReinit ==
  /\ Constructed(ReinitHosts)
  /\ initsLeft = MaxInits
  /\ detectsLeft = 1
  /\ CalcUnused
  /\ MapUnused
  /\ AdjUnused

\* no engine call is followed: calculateMeasurement or tone2char on its own
Parked ==
  /\ Constructed(LoopHosts)
  /\ iAdcCentre = 0
  /\ initsLeft = 0
  /\ detectsLeft = 0

\* thresholds given to calculateMeasurement on its own: automatic, 0, 1/2, 1
\* and the largest magnitude
CalcThresholds == {AUTO, F(0), FRAC \div 2, F(1), F(MaxMag)}

InitCalc ==
  /\ Parked
  /\ calcMag \in [ToneIdx -> {F(m) : m \in 0 .. MaxMag}]
  /\ calcThr \in CalcThresholds
  /\ calcRet = 0 - 1
  /\ MapUnused
  /\ AdjUnused

InitMap ==
  /\ Parked
  /\ CalcUnused
  /\ mapIn \in 0 .. (2 ^ TONES - 1)
  /\ mapOut = ""
  /\ AdjUnused

\* one begin call on its own
InitLoop ==
  /\ Constructed(LoopHosts)
  /\ initsLeft = 1
  /\ detectsLeft = 0
  /\ CalcUnused
  /\ MapUnused
  /\ AdjUnused

(* ------------------------------------------------------------------ *)
(* begin and detect.                                                   *)
(* ------------------------------------------------------------------ *)
\* begin, lines 47..62: the 1000 warm-up reads, the seed of the compensation,
\* the ADC centre
BeginWarmup ==
  /\ pc = "idle"
  /\ initsLeft > 0
  /\ initsLeft' = initsLeft - 1
  /\ \E sig \in Signals :
       LET q == SampleLoop(<<afQ1, afQ2>>, afToneCoeff, iAdcCentre, sig, 1000)
       IN  /\ line' = sig
           /\ afQ1' = q[1]
           /\ afQ2' = q[2]
           /\ iAdcCentre' = AnalogRead(sig, 1000)
  /\ \E maxF \in MaxFreqs, el \in ElapsedMs(1000 * periodNs) :
       /\ maxFrequence' = maxF
       /\ t1' = el
       /\ iCompensation' = IF WarmupFaster(el, maxF) THEN SeedCompensation(el, maxF)
                           ELSE iCompensation
       /\ iSamplesFrequence' \in WarmupFreq(el)
  /\ caller' = "begin"
  /\ pc' = "ra_top"
  /\ UNCHANGED << periodNs, iSamplesCount, fBaseMagnitude, iRealFrequence, afToneCoeff,
                  oldFreq, magnitudes, magnitude, fTemp, ret, nBlocks, detectsLeft,
                  coeffFreq, calcVars, mapVars, adjVars >>

\* begin, lines 67 and 68: remember the frequency, call detect(magnitudes)
RateAdjustTop ==
  /\ pc = "ra_top"
  /\ oldFreq' = iRealFrequence
  /\ magnitude' = AUTO
  /\ nBlocks' = IF nBlocks < MaxBlocks THEN nBlocks + 1 ELSE nBlocks
  /\ pc' = "detect_sampling"
  /\ UNCHANGED << caller, periodNs, line, iSamplesCount, iCompensation, fBaseMagnitude,
                  iSamplesFrequence, iRealFrequence, iAdcCentre, afToneCoeff, afQ1,
                  afQ2, maxFrequence, t1, magnitudes, fTemp, ret, initsLeft, detectsLeft,
                  coeffFreq, calcVars, mapVars, adjVars >>

\* detect called by the user of the engine
DetectCall ==
  /\ pc = "idle"
  /\ detectsLeft > 0
  /\ detectsLeft' = detectsLeft - 1
  /\ \E thr \in Thresholds : magnitude' = thr
  /\ \E sig \in Signals : line' = sig
  /\ caller' = "user"
  /\ pc' = "detect_sampling"
  /\ UNCHANGED << periodNs, iSamplesCount, iCompensation, fBaseMagnitude,
                  iSamplesFrequence, iRealFrequence, iAdcCentre, afToneCoeff, afQ1,
                  afQ2, maxFrequence, t1, oldFreq, magnitudes, fTemp, ret, nBlocks,
                  initsLeft, coeffFreq, calcVars, mapVars, adjVars >>

\* detect, lines 101..108: the block of samples and the measured frequency
DetectBlock ==
  /\ pc = "detect_sampling"
  /\ LET q == SampleLoop(<<afQ1, afQ2>>, afToneCoeff, iAdcCentre, line, iSamplesCount)
     IN  afQ1' = q[1] /\ afQ2' = q[2]
  /\ \E el \in ElapsedMs(BlockNs(periodNs, iCompensation, iSamplesCount)) :
       /\ fTemp' = el
       /\ iRealFrequence' \in MeasuredFreq(el, iSamplesCount)
  /\ pc' = "detect_calc"
  /\ UNCHANGED << caller, periodNs, line, iSamplesCount, iCompensation, fBaseMagnitude,
                  iSamplesFrequence, iAdcCentre, afToneCoeff, maxFrequence, t1, oldFreq,
                  magnitudes, magnitude, ret, nBlocks, initsLeft, detectsLeft, coeffFreq,
                  calcVars, mapVars, adjVars >>

\* detect, line 109: calculateMeasurement (lines 158..190) and the return
DetectCalc ==
  /\ pc = "detect_calc"
  /\ LET mag == Magnitudes(afQ1, afQ2, afToneCoeff)
     IN  /\ magnitudes' = IF caller = "begin" THEN mag ELSE magnitudes
         /\ ret' = CalcDtmf(mag, magnitude)
  /\ afQ1' = ZeroQ
  /\ afQ2' = ZeroQ
  /\ magnitude' = AUTO
  /\ fTemp' = 0
  /\ pc' = IF caller = "begin" THEN "ra_adjust" ELSE "idle"
  /\ caller' = IF caller = "begin" THEN "begin" ELSE "none"
  /\ line' = IF caller = "begin" THEN line ELSE "idle"
  /\ UNCHANGED << periodNs, iSamplesCount, iCompensation, fBaseMagnitude,
                  iSamplesFrequence, iRealFrequence, iAdcCentre, afToneCoeff,
                  maxFrequence, t1, oldFreq, nBlocks, initsLeft, detectsLeft, coeffFreq,
                  calcVars, mapVars, adjVars >>

\* begin, lines 69..71: adjust the compensation, test the loop condition
RateAdjust ==
  /\ pc = "ra_adjust"
  /\ iCompensation' = AdjustCompensation(iCompensation, iRealFrequence, maxFrequence)
  /\ pc' = IF oldFreq # iRealFrequence THEN "ra_top" ELSE "finalize"
  /\ UNCHANGED << caller, periodNs, line, iSamplesCount, fBaseMagnitude, iSamplesFrequence,
                  iRealFrequence, iAdcCentre, afToneCoeff, afQ1, afQ2, maxFrequence, t1,
                  oldFreq, magnitudes, magnitude, fTemp, ret, nBlocks, initsLeft, detectsLeft,
                  coeffFreq, calcVars, mapVars, adjVars >>

\* begin, lines 73..92: base magnitude, coefficients, reset, return
Finalize ==
  /\ pc = "finalize"
  /\ fBaseMagnitude' = BaseMagnitude(magnitudes)
  /\ afToneCoeff' = Coefficients(iRealFrequence)
  /\ coeffFreq' = iRealFrequence
  /\ afQ1' = ZeroQ
  /\ afQ2' = ZeroQ
  /\ ret' = U16(iRealFrequence)
  /\ maxFrequence' = 0
  /\ t1' = 0
  /\ oldFreq' = 0
  /\ magnitudes' = ZeroQ
  /\ nBlocks' = 0
  /\ caller' = "none"
  /\ line' = "idle"
  /\ pc' = "idle"
  /\ UNCHANGED << periodNs, iSamplesCount, iCompensation, iSamplesFrequence,
                  iRealFrequence, iAdcCentre, magnitude, fTemp, initsLeft, detectsLeft,
                  calcVars, mapVars, adjVars >>

\* a begin call is followed for MaxBlocks blocks
RateAdjustTopBounded == nBlocks < MaxBlocks /\ RateAdjustTop

\* detect calls are followed once begin has been called
DetectCallAfterBegin == initsLeft = 0 /\ DetectCall

\* one calibration, then detect calls, on every host
Next ==
  \/ BeginWarmup
  \/ RateAdjustTopBounded
  \/ DetectCallAfterBegin
  \/ DetectBlock
  \/ DetectCalc
  \/ RateAdjust
  \/ Finalize

Spec == Init /\ [][Next]_vars

\* begin and detect calls in any order
NextAnyOrder ==
  \/ BeginWarmup
  \/ RateAdjustTopBounded
  \/ DetectCall
  \/ DetectBlock
  \/ DetectCalc
  \/ RateAdjust
  \/ Finalize

SpecReinit == InitReinit /\ [][NextAnyOrder]_vars

\* a begin call with no limit on its blocks.  The engine is sequential code:
\* a step that can be taken is taken.
NextLoop ==
  \/ BeginWarmup
  \/ RateAdjustTop
  \/ DetectBlock
  \/ DetectCalc
  \/ RateAdjust
  \/ Finalize

\* The call in progress executes its next statement: begin is straight-line
\* code on one thread, so once called it keeps running.  Every step of
\* NextLoop taken inside begin moves pc, and one is enabled at every pc
\* other than "idle"; calling begin at all is left to the user.
BeginRuns ==
  /\ pc # "idle"
  /\ \E p \in {"ra_top", "detect_sampling", "detect_calc", "ra_adjust",
                "finalize", "idle"} \ {pc} : pc' = p

FairSpec == InitLoop /\ [][NextLoop]_vars /\ WF_pc(BeginRuns)

\* calculateMeasurement applied to a block of magnitudes and a threshold
CalcApply ==
  /\ calcRet = 0 - 1
  /\ calcRet' = CalcDtmf(calcMag, calcThr)
  /\ UNCHANGED << engineVars, calcMag, calcThr, mapVars, adjVars >>

SpecCalc == InitCalc /\ [][CalcApply]_vars

\* tone2char applied to a bitmask
MapApply ==
  /\ mapOut = ""
  /\ mapOut' = tone2char(mapIn)
  /\ UNCHANGED << engineVars, calcVars, mapIn, adjVars >>

SpecMap == InitMap /\ [][MapApply]_vars

\* compensation delays, measured frequencies and maxFrequence arguments given
\* to lines 69..70 on their own: the ends of the range [0, 200], the edges of
\* the band and of maxFrequence - 150 = 0
AdjComps == {0, 1, 100, 199, 200}

AdjFreqs == {0, 99, 100, 101, 3849, 3850, 4000, 4001, MAX_FREQ, UINT_SAT}

AdjMaxFreqs == {100, 149, 150, 151, 4000, MAX_FREQ}

InitAdjust ==
  /\ Parked
  /\ CalcUnused
  /\ MapUnused
  /\ adjComp \in AdjComps
  /\ adjFreq \in AdjFreqs
  /\ adjMax \in AdjMaxFreqs
  /\ adjOut = 0 - 1

\* lines 69..70 applied to a compensation, a measurement and a maxFrequence
AdjustApply ==
  /\ adjOut = 0 - 1
  /\ adjOut' = AdjustCompensation(adjComp, adjFreq, adjMax)
  /\ UNCHANGED << engineVars, calcVars, mapVars, adjComp, adjFreq, adjMax >>

SpecAdjust == InitAdjust /\ [][AdjustApply]_vars

\* the host's native sampling rate in whole Hz
NativeHz == 1000000000 \div periodNs

\* the native rate is above maxFrequence, by up to a factor of two
NativeRateAbove == NativeHz > maxFrequence /\ NativeHz <= 2 * maxFrequence

\* the warm-up of the last begin call measured a finite rate
WarmupMeasured == iSamplesFrequence \notin NonFiniteToU32

\* the engine was constructed with the default block size
DefaultBlock == iSamplesCount = DEFAULT_SAMPLES

\* begin has left its loop and is about to return U16(iRealFrequence)
Returning == pc = "finalize"

\* C1: when begin returns on a host whose native rate is above maxFrequence,
\* up to 2 x maxFrequence (default block size, warm-up of at least a
\* millisecond), the returned frequency lies in
\* [maxFrequence - 150, maxFrequence].
C1_ReturnedInBand ==
  (Returning /\ NativeRateAbove /\ DefaultBlock /\ WarmupMeasured) =>
     /\ U16(iRealFrequence) <= maxFrequence
     /\ U16(iRealFrequence) >= maxFrequence - 150

\* C2: every begin call that has entered its RATE_ADJUST loop leaves it.
C2_BeginTerminates == (pc = "ra_top") ~> (pc = "idle")

\* C3: a rate measurement with zero elapsed time, or with sampleCount 0, does
\* not go on to produce a frequency, and the coefficients are never computed
\* from a frequency that is zero or comes from a non-finite value.
C3_DegenerateTimingReported ==
  /\ (pc = "detect_calc" => (fTemp > 0 /\ iSamplesCount > 0))
  /\ (pc = "ra_top" => t1 > 0)
  /\ coeffFreq \notin {0, UINT_SAT}

\* sum of f over the tones of S
RECURSIVE TotalOver(_, _)
TotalOver(f, S) ==
  IF S = {} THEN 0 ELSE LET i == CHOOSE x \in S : TRUE IN f[i] + TotalOver(f, S \ {i})

\* bit i of the bitmask d
BitOf(d, i) == (d \div (2 ^ i)) % 2

\* C4: bit i of the bitmask calculateMeasurement returns is set iff
\* magnitude[i] is strictly greater than the threshold, which is twice the mean
\* of the TONES magnitudes for a negative threshold argument and the argument
\* itself otherwise (0 included).
C4_BitIffOverThreshold ==
  (calcRet # 0 - 1) =>
     /\ calcRet \in 0 .. (2 ^ TONES - 1)
     /\ \A i \in ToneIdx :
          (BitOf(calcRet, i) = 1) <=>
             IF calcThr < 0 THEN TONES * calcMag[i] > 2 * TotalOver(calcMag, ToneIdx)
             ELSE calcMag[i] > calcThr

\* C4 witness: automatic threshold, some tones over it and some not
C4_Witness == calcThr < 0 /\ calcRet > 0 /\ calcRet < 2 ^ TONES - 1

\* C5: once begin has completed, a detect call by the user leaves
\* realFrequency, compensationDelay, adcCenter and baseMagnitude as they were
\* (checked on engines constructed with the default block size whose warm-up
\* measured a finite rate).
C5_DetectKeepsProfile ==
  [][ (caller = "user" /\ coeffFreq # 0 - 1 /\ DefaultBlock /\ WarmupMeasured) =>
        /\ iRealFrequence' = iRealFrequence
        /\ iCompensation' = iCompensation
        /\ iAdcCentre' = iAdcCentre
        /\ fBaseMagnitude' = fBaseMagnitude ]_vars

\* C6: the compensation delay is between 0 and 200 microseconds in every state.
C6_CompensationClamped == iCompensation >= 0 /\ iCompensation <= 200

\* C7: tone2char returns the character of the table entry whose pattern equals
\* the bitmask, and the sentinel 0 for a bitmask that equals no pattern.
C7_ExactLookup ==
  (mapOut # "") =>
     /\ \A j \in 1 .. (2 * TONES) : (DTMF_MAP[j] = mapIn) => (mapOut = DTMF_CHAR[j])
     /\ (\A j \in 1 .. (2 * TONES) : DTMF_MAP[j] # mapIn) => (mapOut = NUL)

\* C7 witness: the last entry of the table has been looked up
C7_Witness == mapIn = DTMF_MAP[2 * TONES] /\ mapOut = DTMF_CHAR[2 * TONES]

\* C8: when a detection block is about to take its first sample, every Q1[i]
\* and Q2[i] is zero.
C8_ResonatorsZeroAtBlockStart ==
  (pc = "detect_sampling") => (afQ1 = ZeroQ /\ afQ2 = ZeroQ)

\* C9: whenever a block uses the coefficients (its samples, its magnitudes),
\* they have been computed, and from the current realFrequency.
C9_CoefficientsCurrent ==
  (pc \in {"detect_sampling", "detect_calc"}) =>
     (coeffFreq # 0 - 1 /\ afToneCoeff = Coefficients(iRealFrequence))

\* C10: begin leaves its loop only after two blocks of its own have measured
\* the same frequency, so after at least two blocks.
C10_TwoBlocksBeforeExit == (pc = "finalize") => (nBlocks >= 2)

\* C11: once the loop has reached its fixed point, begin runs a further
\* detection block before it computes baseMagnitude: the step that leaves the
\* loop starts a block.
C11_BlockAfterConvergence ==
  [][ (pc = "ra_adjust" /\ NativeRateAbove /\ DefaultBlock /\ WarmupMeasured
         /\ pc' # "ra_top") =>
        pc' = "detect_sampling" ]_vars

\* the warm-up of the begin call in progress has just ended
WarmupEnded == pc = "ra_top" /\ nBlocks = 0

\* C12: at the end of the warm-up of every begin call the compensation delay
\* is 0 when the measured baseline rate is not greater than maxFrequence.
C12_SeedResetWhenNotFaster ==
  (WarmupEnded /\ ~WarmupFaster(t1, maxFrequence)) => iCompensation = 0

\* a detect call by the user has just sampled a block, started from reset
\* resonators, whose samples all equal the ADC centre
ZeroInputBlock ==
  /\ pc = "detect_calc"
  /\ caller = "user"
  /\ coeffFreq # 0 - 1
  /\ iSamplesCount > 0
  /\ line = "idle"
  /\ iAdcCentre = ADC_IDLE

\* C13: a block of samples all equal to adcCenter, started from reset
\* resonators, leaves every Q1[i] and Q2[i] zero and every magnitude zero,
\* whatever the coefficients, and with the automatic threshold detect
\* returns the bitmask 0.
C13_ZeroInputZeroOutput ==
  ZeroInputBlock =>
     /\ afQ1 = ZeroQ
     /\ afQ2 = ZeroQ
     /\ Magnitudes(afQ1, afQ2, afToneCoeff) = ZeroQ
     /\ (magnitude < 0 => CalcDtmf(Magnitudes(afQ1, afQ2, afToneCoeff), magnitude) = 0)

\* C14: one RATE_ADJUST iteration changes the compensation delay by +1 when
\* realFrequency > maxFrequence and the delay is below 200, by -1 when
\* realFrequency < maxFrequence - 150 (as integers) and the delay is above 0,
\* and not at all otherwise.
C14_AdjustByOne ==
  (adjOut # 0 - 1) =>
     adjOut = IF adjFreq > adjMax /\ adjComp < 200 THEN adjComp + 1
              ELSE IF adjFreq < adjMax - 150 /\ adjComp > 0 THEN adjComp - 1
              ELSE adjComp

\* the number of bits set in the bitmask d
BitCount(d) == TotalOver([i \in ToneIdx |-> BitOf(d, i)], ToneIdx)

\* all magnitudes of the block given to calculateMeasurement are the same M > 0
AllEqualPositive == calcMag[0] > 0 /\ \A i \in ToneIdx : calcMag[i] = calcMag[0]

\* C15: with the automatic threshold fewer than TONES / 2 bits are set in the
\* bitmask calculateMeasurement returns, none when all magnitudes are the
\* same M > 0, and never all of them.
C15_AutoFewBits ==
  (calcRet # 0 - 1 /\ calcThr < 0) =>
     /\ 2 * BitCount(calcRet) < TONES
     /\ AllEqualPositive => calcRet = 0
     /\ calcRet # 2 ^ TONES - 1

\* C15 witness: automatic threshold, as many bits set as the claim allows
C15_Witness == calcThr < 0 /\ calcRet # 0 - 1 /\ 2 * BitCount(calcRet) + 2 = TONES

\* C16: the compensation delay is not modified after the final measurement of
\* the loop: the step that leaves the loop keeps the delay the last block was
\* paced with.
C16_DelayKeptAfterLastBlock ==
  [][ (pc = "ra_adjust" /\ NativeRateAbove /\ DefaultBlock /\ WarmupMeasured
         /\ pc' = "finalize") =>
        iCompensation' = iCompensation ]_vars

====
